---- MODULE Spec2Model ----
(***************************************************************************)
(* Model of the dependency-graph engine of src/main.py: the two graph      *)
(* builders (build_graph_test_dfs, build_graph_real_dfs), the topological  *)
(* sorter (topo_load_order) and the diagram functions (build_mermaid,      *)
(* positions_bfs, render_svg).                                             *)
(*                                                                         *)
(* A Python dict is a record [keys, val]: keys is the insertion order of   *)
(* the keys (the order items() iterates in), val the mapping.  A Python    *)
(* set of strings has no defined iteration order (string hashing is        *)
(* randomised per process), so every loop over a set takes the iteration   *)
(* order as a nondeterministically chosen enumeration of the set.          *)
(***************************************************************************)
EXTENDS Integers, Sequences, FiniteSets, TLC

VARIABLES graph, root, done, order, cyc, prev_order,
          pos, mermaid, svg, prev_pos, prev_mermaid,
          repo_graph, seen, stack, log, status,
          prov, bgraph, bseen, queue, blog, bstatus

vars == <<graph, root, done, order, cyc, prev_order,
          pos, mermaid, svg, prev_pos, prev_mermaid,
          repo_graph, seen, stack, log, status,
          prov, bgraph, bseen, queue, blog, bstatus>>

topoVars == <<order, cyc, prev_order>>
diagVars == <<pos, mermaid, svg, prev_pos, prev_mermaid>>
testVars == <<repo_graph, seen, stack, log, status>>
realVars == <<prov, bgraph, bseen, queue, blog, bstatus>>

(***************************************************************************)
(* Bounds of the model.                                                    *)
(***************************************************************************)
NumNodes == 3
NumTestNames == 3
MaxDeps == 2
MaxEdges == 2
MaxListed == 3

(***************************************************************************)
(* Identifiers.  Python compares strings by code point, so every capital   *)
(* letter sorts before every small letter.                                 *)
(***************************************************************************)
SortedNames == <<"A", "B", "C", "D", "E", "a", "b", "c", "d", "e">>

NodeNames == <<"A", "B", "C", "D", "E">>

Nodes == {NodeNames[i] : i \in 1..NumNodes}

\* the identifiers of the fixtures: some differ only in letter case
TestNameTable == <<"A", "a", "B", "b", "C", "c">>

TestNames == {TestNameTable[i] : i \in 1..NumTestNames}

\* str.lower()
Lower(n) ==
    CASE n = "A" -> "a" [] n = "B" -> "b" [] n = "C" -> "c"
      [] n = "D" -> "d" [] n = "E" -> "e" [] OTHER -> n

Rank(n) == CHOOSE i \in 1..Len(SortedNames) : SortedNames[i] = n

Range(s) == {s[i] : i \in 1..Len(s)}

RECURSIVE SortedSeq(_)
\* sorted(S) for a set S of names
SortedSeq(S) ==
    IF S = {} THEN <<>>
    ELSE LET m == CHOOSE x \in S : \A y \in S : Rank(x) <= Rank(y)
         IN <<m>> \o SortedSeq(S \ {m})

\* every enumeration of the set S: the orders a loop over S can run in
Perms(S) ==
    {f \in [1..Cardinality(S) -> S] : \A i, j \in 1..Cardinality(S) : i # j => f[i] # f[j]}

\* the sequences over S of length at most n
SeqsUpTo(S, n) == UNION {[1..k -> S] : k \in 0..n}

(***************************************************************************)
(* Python dicts.                                                           *)
(***************************************************************************)
EmptyDict == [keys |-> <<>>, val |-> [n \in {} |-> <<>>]]

Keys(d) == DOMAIN d.val

\* d.get(k, [])
DictGet(d, k) == IF k \in Keys(d) THEN d.val[k] ELSE <<>>

\* d[k] = v
DictPut(d, k, v) ==
    IF k \in Keys(d)
    THEN [d EXCEPT !.val[k] = v]
    ELSE [keys |-> Append(d.keys, k),
          val |-> [x \in Keys(d) \cup {k} |-> IF x = k THEN v ELSE d.val[x]]]

Min(a, b) == IF a <= b THEN a ELSE b

RECURSIVE MapsFrom(_, _, _, _)
\* the mappings from some of the names listed in ns to lists of at most L
\* names of NS, with at most E list entries in all
MapsFrom(ns, NS, L, E) ==
    IF ns = <<>> THEN {EmptyDict.val}
    ELSE MapsFrom(Tail(ns), NS, L, E) \cup
         UNION {{(Head(ns) :> ds) @@ m : m \in MapsFrom(Tail(ns), NS, L, E - Len(ds))} :
                ds \in SeqsUpTo(NS, Min(L, E))}

MapsOver(NS, L, E) == MapsFrom(SortedSeq(NS), NS, L, E)

Reverse(s) == [i \in 1..Len(s) |-> s[Len(s) + 1 - i]]

\* the insertion orders considered for the keys K: ascending and descending
KeyOrders(K) == {SortedSeq(K), Reverse(SortedSeq(K))}

\* the dependency graphs over NS: such a mapping with its keys in either order
GraphsOver(NS, L, E) ==
    UNION {{[keys |-> ks, val |-> v] : ks \in KeyOrders(DOMAIN v)} : v \in MapsOver(NS, L, E)}

\* the fixtures over NS: such a mapping (the builder never iterates over it)
FixturesOver(NS, L, E) ==
    {[keys |-> SortedSeq(DOMAIN v), val |-> v] : v \in MapsOver(NS, L, E)}

\* nodes = set(graph.keys()); for deps in graph.values(): nodes.update(deps)
Universe(g) == Keys(g) \cup UNION {Range(g.val[k]) : k \in Keys(g)}

(***************************************************************************)
(* topo_load_order (Kahn's algorithm).  it is the iteration order of the   *)
(* set nodes.                                                              *)
(***************************************************************************)
\* indeg after the counting loop: one per entry of the node's own list
Indeg(g) == [n \in Universe(g) |-> Len(DictGet(g, n))]

OccurrencesOnce(deps, d) == IF d \in Range(deps) THEN 1 ELSE 0

\* the number of times d is listed in deps
Occurrences(deps, d) == Cardinality({i \in 1..Len(deps) : deps[i] = d})

RECURSIVE Repeat(_, _)
Repeat(n, k) == IF k = 0 THEN <<>> ELSE <<n>> \o Repeat(n, k - 1)

\* rev[d]: the dependents of d, one entry per listing, in items() order
RECURSIVE RevOf(_, _, _)
RevOf(g, ks, d) ==
    IF ks = <<>> THEN <<>>
    ELSE Repeat(Head(ks), Occurrences(g.val[Head(ks)], d)) \o RevOf(g, Tail(ks), d)

Rev(g) == [d \in Universe(g) |-> RevOf(g, g.keys, d)]

ReachedOne(k) == k = 1

\* a node enters the queue when its counter reaches exactly zero
ReachedZero(k) == k = 0

\* for w in rev[v]: indeg[w] -= 1; if indeg[w] == 0: q.append(w)
RECURSIVE Relax(_, _, _)
Relax(ws, indeg, q) ==
    IF ws = <<>> THEN [indeg |-> indeg, q |-> q]
    ELSE LET w == Head(ws)
             ind == [indeg EXCEPT ![w] = @ - 1]
         IN Relax(Tail(ws), ind, IF ReachedZero(ind[w]) THEN Append(q, w) ELSE q)

\* while q: v = q.popleft(); order.append(v); ...
RECURSIVE KahnLoop(_, _, _, _)
KahnLoop(q, ord, indeg, rev) ==
    IF q = <<>> THEN [order |-> ord, indeg |-> indeg]
    ELSE LET v == Head(q)
             r == Relax(rev[v], indeg, Tail(q))
         IN KahnLoop(r.q, Append(ord, v), r.indeg, rev)

topo_load_order(g, it) ==
    LET indeg == Indeg(g)
        IsZero(n) == indeg[n] = 0
        k == KahnLoop(SelectSeq(it, IsZero), <<>>, indeg, Rev(g))
        Left(n) == k.indeg[n] > 0
    IN [order |-> k.order, cyc |-> SelectSeq(it, Left)]

(***************************************************************************)
(* Specification of the sorter: any graph, any number of calls.            *)
(***************************************************************************)
NoSvg == [w |-> 0, h |-> 0, lines |-> <<>>, nodes |-> <<>>]

Idle ==
    /\ repo_graph = EmptyDict /\ seen = {} /\ stack = <<>> /\ log = <<>>
    /\ status = "idle"
    /\ prov = EmptyDict.val /\ bgraph = EmptyDict /\ bseen = {} /\ queue = <<>>
    /\ blog = <<>> /\ bstatus = "idle"

InitGraph ==
    /\ graph \in GraphsOver(Nodes, MaxDeps, MaxEdges)
    /\ root \in Nodes
    /\ done = {}
    /\ order = <<>> /\ cyc = <<>> /\ prev_order = <<>>
    /\ pos = EmptyDict /\ mermaid = <<>> /\ svg = NoSvg
    /\ prev_pos = EmptyDict /\ prev_mermaid = <<>>
    /\ Idle

\* a first call, and a second call on the same graph
TopoRun ==
    /\ "topo2" \notin done
    /\ \E it \in Perms(Universe(graph)) :
         LET r == topo_load_order(graph, it)
         IN /\ order' = r.order
            /\ cyc' = r.cyc
    /\ prev_order' = order
    /\ done' = IF "topo" \in done THEN done \cup {"topo2"} ELSE {"topo"}
    /\ UNCHANGED <<graph, root, diagVars, testVars, realVars>>

InitTopo == InitGraph /\ root = NodeNames[1]

NextTopo == TopoRun

SpecTopo == InitTopo /\ [][NextTopo]_vars

\* ---- graph facts the claims speak of ----
Edge(g, n, d) == n \in Keys(g) /\ d \in Range(g.val[n])

RECURSIVE ReachIn(_, _, _)
\* the nodes reachable from the set S in at most k further steps
ReachIn(g, S, k) ==
    IF k = 0 THEN S
    ELSE ReachIn(g, S \cup UNION {Range(DictGet(g, n)) : n \in S}, k - 1)

\* n reaches itself through one or more dependency edges
OnCycle(g, n) ==
    n \in ReachIn(g, Range(DictGet(g, n)), Cardinality(Universe(g)))

Acyclic(g) == \A n \in Universe(g) : ~OnCycle(g, n)

IndexOf(s, x) == CHOOSE i \in 1..Len(s) : s[i] = x

NoDup(s) == \A i, j \in 1..Len(s) : i # j => s[i] # s[j]

\* C1: for an acyclic graph the returned order lists every node of the
\* universe exactly once, every dependency before each node that lists it,
\* and the second list is empty.
C1_AcyclicOrder ==
    ("topo" \in done /\ Acyclic(graph)) =>
        /\ Range(order) = Universe(graph)
        /\ NoDup(order)
        /\ \A n, d \in Universe(graph) :
             Edge(graph, n, d) => IndexOf(order, d) < IndexOf(order, n)
        /\ cyc = <<>>

\* an acyclic graph of three nodes, two of which list the same dependency
C1_Witness ==
    /\ "topo" \in done /\ Acyclic(graph)
    /\ Len(order) = 3
    /\ \E n, m, d \in Universe(graph) :
         n # m /\ Edge(graph, n, d) /\ Edge(graph, m, d)

\* C2: the remainder is empty exactly when the graph has no directed cycle;
\* a node lying on a cycle is never in the order and always in the remainder.
C2_CycleDetection ==
    "topo" \in done =>
        /\ (cyc = <<>>) <=> Acyclic(graph)
        /\ \A n \in Universe(graph) :
             OnCycle(graph, n) => (n \notin Range(order) /\ n \in Range(cyc))

\* a mutual pair next to one free node: the order holds the free node only
C2_Witness ==
    /\ "topo" \in done
    /\ \E a, b \in Universe(graph) : a # b /\ Edge(graph, a, b) /\ Edge(graph, b, a)
    /\ Len(order) = 1

\* C3: every node of the second list lies on a directed cycle.
C3_RemainderOnCycle ==
    "topo" \in done => \A n \in Range(cyc) : OnCycle(graph, n)

\* C8: two calls on the same graph return the same order.
C8_ReproducibleOrder ==
    "topo2" \in done => order = prev_order

(***************************************************************************)
(* build_mermaid.  The text is modelled as its list of lines, each line as *)
(* the record of what it is made of ('\n'.join is injective on them).      *)
(***************************************************************************)
RECURSIVE Insert(_, _)
Insert(s, x) ==
    IF s = <<>> THEN <<x>>
    ELSE IF Rank(x) < Rank(Head(s)) THEN <<x>> \o s
    ELSE <<Head(s)>> \o Insert(Tail(s), x)

RECURSIVE Sorted(_)
\* sorted(s) for a list s of names, repetitions kept
Sorted(s) == IF s = <<>> THEN <<>> ELSE Insert(Sorted(Tail(s)), Head(s))

HeaderLine == [kind |-> "graph TD", s |-> "", d |-> ""]
NodeLine(n) == [kind |-> "node", s |-> n, d |-> ""]
EdgeLine(s, d) == [kind |-> "edge", s |-> s, d |-> d]

RECURSIVE IsolatedLines(_, _)
\* for n in sorted(nodes): if not graph.get(n): lines.append(n)
IsolatedLines(g, ns) ==
    IF ns = <<>> THEN <<>>
    ELSE (IF DictGet(g, Head(ns)) = <<>> THEN <<NodeLine(Head(ns))>> ELSE <<>>)
         \o IsolatedLines(g, Tail(ns))

RECURSIVE EdgeLines(_, _)
\* for s in sorted(graph.keys()): for d in sorted(graph[s]): lines.append(s --> d)
EdgeLines(g, ks) ==
    IF ks = <<>> THEN <<>>
    ELSE LET ds == Sorted(g.val[Head(ks)])
         IN [i \in 1..Len(ds) |-> EdgeLine(Head(ks), ds[i])] \o EdgeLines(g, Tail(ks))

build_mermaid(g) ==
    <<HeaderLine>> \o IsolatedLines(g, SortedSeq(Universe(g)))
                   \o EdgeLines(g, SortedSeq(Keys(g)))

(***************************************************************************)
(* positions_bfs.  it is the iteration order of the set nodes in the loop  *)
(* that places the nodes the traversal did not reach.                      *)
(***************************************************************************)
XStep == 200
YStep == 100
Margin == 100

RECURSIVE LevelDeps(_, _, _, _)
\* for d in graph.get(v, []): if d not in lvl: lvl[d] = lvl[v] + 1; q.append(d)
LevelDeps(ds, v, lvl, q) ==
    IF ds = <<>> THEN [lvl |-> lvl, q |-> q]
    ELSE LET d == Head(ds)
         IN IF d \in Keys(lvl)
            THEN LevelDeps(Tail(ds), v, lvl, q)
            ELSE LevelDeps(Tail(ds), v, DictPut(lvl, d, lvl.val[v] + 1), Append(q, d))

RECURSIVE Levels(_, _, _)
\* while q: v = q.popleft(); ...
Levels(g, lvl, q) ==
    IF q = <<>> THEN lvl
    ELSE LET r == LevelDeps(DictGet(g, Head(q)), Head(q), lvl, Tail(q))
         IN Levels(g, r.lvl, r.q)

\* per[l] after per[l].sort()
Per(lvl, l) == SortedSeq({n \in Keys(lvl) : lvl.val[n] = l})

RECURSIVE LevelKeys(_, _)
\* the keys of per in insertion order: the levels in order of first occurrence
LevelKeys(lvl, ks) ==
    IF ks = <<>> THEN <<>>
    ELSE LET rest == LevelKeys(lvl, SubSeq(ks, 1, Len(ks) - 1))
             l == lvl.val[ks[Len(ks)]]
         IN IF l \in Range(rest) THEN rest ELSE Append(rest, l)

RECURSIVE PlaceRow(_, _, _, _)
\* for i, n in enumerate(arr): pos[n] = (100 + l * xstep, 100 + i * ystep)
PlaceRow(arr, i, l, p) ==
    IF i > Len(arr) THEN p
    ELSE PlaceRow(arr, i + 1, l,
                  DictPut(p, arr[i], <<Margin + l * XStep, Margin + (i - 1) * YStep>>))

RECURSIVE PlaceLevels(_, _, _)
PlaceLevels(lvl, ls, p) ==
    IF ls = <<>> THEN p
    ELSE PlaceLevels(lvl, Tail(ls), PlaceRow(Per(lvl, Head(ls)), 1, Head(ls), p))

RECURSIVE PlaceRest(_, _)
\* for n in nodes: if n not in pos: pos[n] = (100, 100 + len(pos) * ystep)
PlaceRest(it, p) ==
    IF it = <<>> THEN p
    ELSE IF Head(it) \in Keys(p) THEN PlaceRest(Tail(it), p)
    ELSE PlaceRest(Tail(it),
                   DictPut(p, Head(it), <<Margin, Margin + Len(p.keys) * YStep>>))

LayoutNodes(g, r) == Universe(g) \cup {r}

positions_bfs(g, r, it) ==
    LET lvl == Levels(g, DictPut(EmptyDict, r, 0), <<r>>)
    IN PlaceRest(it, PlaceLevels(lvl, LevelKeys(lvl, lvl.keys), EmptyDict))

(***************************************************************************)
(* render_svg.  A line element is the record of its two end points before  *)
(* the offset and of the side it is shifted to: shift = 1 moves it by the  *)
(* normal (px, py) of length 10 of the direction s -> d, shift = -1 by the *)
(* opposite vector, shift = 0 leaves it on the straight line.              *)
(***************************************************************************)
RECURSIVE EdgeList(_, _)
\* edges = [(s, d) for s, deps in graph.items() for d in deps]
EdgeList(g, ks) ==
    IF ks = <<>> THEN <<>>
    ELSE [i \in 1..Len(g.val[Head(ks)]) |-> <<Head(ks), g.val[Head(ks)][i]>>]
         \o EdgeList(g, Tail(ks))

\* pos.get(n, (0, 0))
PosGet(p, n) == IF n \in Keys(p) THEN p.val[n] ELSE <<0, 0>>

Line(a, b, k) == [from |-> a, to |-> b, shift |-> k]

\* the branch taken for the edge (s, d)
IsMutualFirst(s, d, edge_set, processed) ==
    <<d, s>> \in edge_set /\ <<s, d>> \notin processed /\ <<d, s>> \notin processed

IsSingle(s, d, edge_set) == <<d, s>> \notin edge_set

RECURSIVE DrawEdges(_, _, _, _)
DrawEdges(es, edge_set, processed, p) ==
    IF es = <<>> THEN <<>>
    ELSE LET s == Head(es)[1]
             d == Head(es)[2]
         IN IF IsMutualFirst(s, d, edge_set, processed)
            THEN <<Line(PosGet(p, s), PosGet(p, d), 1),
                   Line(PosGet(p, d), PosGet(p, s), -1)>>
                 \o DrawEdges(Tail(es), edge_set, processed \cup {<<s, d>>, <<d, s>>}, p)
            ELSE IF IsSingle(s, d, edge_set)
            THEN <<Line(PosGet(p, s), PosGet(p, d), 0)>>
                 \o DrawEdges(Tail(es), edge_set, processed, p)
            ELSE DrawEdges(Tail(es), edge_set, processed, p)

Max(S) == CHOOSE x \in S : \A y \in S : y <= x

render_svg(g, r, it) ==
    LET p == positions_bfs(g, r, it)
        edges == EdgeList(g, g.keys)
    IN [w |-> Max({p.val[n][1] : n \in Keys(p)}) + 100,
        h |-> Max({p.val[n][2] : n \in Keys(p)}) + 100,
        lines |-> DrawEdges(edges, Range(edges), {}, p),
        nodes |-> [i \in 1..Len(p.keys) |-> <<p.keys[i], p.val[p.keys[i]]>>]]

(***************************************************************************)
(* Specification of the diagram functions: any graph and root; one step is *)
(* the text diagram and the image of the graph (stage5_visual's calls),    *)
(* taken a first and a second time on the same graph.                      *)
(***************************************************************************)
Visual ==
    /\ "visual2" \notin done
    /\ mermaid' = build_mermaid(graph)
    /\ \E it \in Perms(LayoutNodes(graph, root)) :
         /\ pos' = positions_bfs(graph, root, it)
         /\ svg' = render_svg(graph, root, it)
    /\ prev_pos' = pos
    /\ prev_mermaid' = mermaid
    /\ done' = IF "visual" \in done THEN done \cup {"visual2"} ELSE {"visual"}
    /\ UNCHANGED <<graph, root, topoVars, testVars, realVars>>

InitDiagram == InitGraph

NextDiagram == Visual

SpecDiagram == InitDiagram /\ [][NextDiagram]_vars

\* the number of line elements drawn from the position of s to that of d
Segments(s, d) ==
    Cardinality({i \in 1..Len(svg.lines) :
                   svg.lines[i].from = pos.val[s] /\ svg.lines[i].to = pos.val[d]})

\* C9: two line elements for every pair of nodes joined in both directions,
\* one line element for every edge whose reverse edge is absent.
C9_SegmentCount ==
    "visual" \in done =>
        \A s, d \in Universe(graph) :
            /\ (Edge(graph, s, d) /\ Edge(graph, d, s)) =>
                   (IF s = d THEN Segments(s, s) ELSE Segments(s, d) + Segments(d, s)) = 2
            /\ (Edge(graph, s, d) /\ ~Edge(graph, d, s)) => Segments(s, d) = 1

\* C10: two runs on the same graph and root place every node of the
\* universe at the same coordinates and produce the same diagram text.
C10_DeterministicLayout ==
    "visual2" \in done =>
        /\ Keys(pos) = LayoutNodes(graph, root)
        /\ Keys(prev_pos) = Keys(pos)
        /\ \A n \in Keys(pos) : pos.val[n] = prev_pos.val[n]
        /\ mermaid = prev_mermaid

(***************************************************************************)
(* build_graph_test_dfs.  stack is the call stack of the nested dfs: a     *)
(* frame is the argument n and the position i in the loop over deps        *)
(* (i = 0: the call has been made, its body has not run yet).              *)
(***************************************************************************)
\* if n in seen
SeenTest(n, sn) == n \in sn

LookupLowered(rg, n) == DictGet(rg, Lower(n))

\* deps = repo_graph.get(n, [])
Lookup(rg, n) == DictGet(rg, n)

Top(st) == st[Len(st)]

Pop(st) == SubSeq(st, 1, Len(st) - 1)

\* the status once the frame on top has returned
AfterReturn(st) == IF Len(st) = 1 THEN "done" ELSE "running"

InitTest ==
    /\ repo_graph \in FixturesOver(TestNames, MaxDeps, MaxEdges)
    /\ root \in TestNames
    /\ graph = EmptyDict /\ seen = {} /\ log = <<>>
    /\ stack = <<[n |-> root, i |-> 0]>>
    /\ status = "running"
    /\ done = {}
    /\ order = <<>> /\ cyc = <<>> /\ prev_order = <<>>
    /\ pos = EmptyDict /\ mermaid = <<>> /\ svg = NoSvg
    /\ prev_pos = EmptyDict /\ prev_mermaid = <<>>
    /\ prov = EmptyDict.val /\ bgraph = EmptyDict /\ bseen = {} /\ queue = <<>>
    /\ blog = <<>> /\ bstatus = "idle"

\* if n in seen: return
TestSkip ==
    /\ status = "running" /\ stack # <<>>
    /\ Top(stack).i = 0
    /\ SeenTest(Top(stack).n, seen)
    /\ stack' = Pop(stack)
    /\ status' = AfterReturn(stack)
    /\ UNCHANGED <<graph, root, done, topoVars, diagVars, repo_graph, seen, log, realVars>>

\* seen.add(n); deps = repo_graph.get(n, []); graph[n] = deps
TestVisit ==
    /\ status = "running" /\ stack # <<>>
    /\ Top(stack).i = 0
    /\ ~SeenTest(Top(stack).n, seen)
    /\ seen' = seen \cup {Top(stack).n}
    /\ log' = Append(log, Top(stack).n)
    /\ graph' = DictPut(graph, Top(stack).n, Lookup(repo_graph, Top(stack).n))
    /\ stack' = [stack EXCEPT ![Len(stack)].i = 1]
    /\ UNCHANGED <<root, done, topoVars, diagVars, repo_graph, status, realVars>>

\* for d in deps: dfs(d)
TestDescend ==
    /\ status = "running" /\ stack # <<>>
    /\ Top(stack).i >= 1
    /\ Top(stack).i <= Len(graph.val[Top(stack).n])
    /\ stack' = Append([stack EXCEPT ![Len(stack)].i = @ + 1],
                       [n |-> graph.val[Top(stack).n][Top(stack).i], i |-> 0])
    /\ UNCHANGED <<graph, root, done, topoVars, diagVars, repo_graph, seen, log, status, realVars>>

\* the loop is over: the call returns
TestReturn ==
    /\ status = "running" /\ stack # <<>>
    /\ Top(stack).i >= 1
    /\ Top(stack).i > Len(graph.val[Top(stack).n])
    /\ stack' = Pop(stack)
    /\ status' = AfterReturn(stack)
    /\ UNCHANGED <<graph, root, done, topoVars, diagVars, repo_graph, seen, log, realVars>>

NextTest == TestSkip \/ TestVisit \/ TestDescend \/ TestReturn

SpecTest == InitTest /\ [][NextTest]_vars

\* the interpreter runs the call to its end: a step that can be taken is taken
FairSpecTest == SpecTest /\ WF_vars(NextTest)

\* the nodes reachable from the root through fixture edges, root included
Reachable(rg, r) == ReachIn(rg, {r}, Cardinality(Universe(rg)) + 1)

TestResultRight ==
    status = "done" =>
        /\ Keys(graph) = Reachable(repo_graph, root)
        /\ \A n \in Keys(graph) : graph.val[n] = DictGet(repo_graph, n)

\* C4: the builder terminates, looks no node up twice, and returns exactly
\* the nodes reachable from the root, each with its fixture list (the empty
\* list when the fixture has no line for it).
C4_TestBuild ==
    /\ [](NoDup(log) /\ TestResultRight)
    /\ <>(status = "done")

\* a cyclic fixture with a self-dependency and a node without a line
C4_Witness ==
    /\ status = "done"
    /\ \E n \in Keys(graph) : Edge(repo_graph, n, n)
    /\ \E n \in Keys(graph) : n \notin Keys(repo_graph)
    /\ \E n \in Keys(graph) : ~Acyclic(repo_graph) /\ n # root

\* C7: the returned graph has no two keys that differ only in letter case,
\* and every key is the spelling of its first visit.
C7_CaseInsensitiveKeys ==
    status = "done" =>
        /\ \A k1, k2 \in Keys(graph) : Lower(k1) = Lower(k2) => k1 = k2
        /\ \A i, j \in 1..Len(log) : Lower(log[i]) = Lower(log[j]) => i = j

(***************************************************************************)
(* build_graph_real_dfs.  The provider is the registry behind              *)
(* extract_direct_deps(fetch_nuspec(repo_url, name, ver)): it answers a    *)
(* query with a list of (id, version) pairs, version "" when the element   *)
(* declares none, or fails.  flat_url lower-cases the name, so the answer  *)
(* depends on the lower-cased name and the version.  prov records the      *)
(* answers given so far; a query never made before gets any answer.       *)
(***************************************************************************)
\* three packages, one of them referred to in two spellings
RealNames == {"A", "B", "C", "c"}

\* the version of the root package and the other version a package can declare
RootVer == "1.0"
OtherVer == "2.0"

DepEntries == {[id |-> n, ver |-> v] : n \in RealNames, v \in {"", OtherVer}}

Failure == [ok |-> FALSE, deps |-> <<>>]

Answers ==
    {Failure} \cup {[ok |-> TRUE, deps |-> ds] : ds \in SeqsUpTo(DepEntries, MaxDeps)}

RECURSIVE Listed(_, _)
\* the number of dependency entries in the answers given so far
Listed(pv, D) ==
    IF D = {} THEN 0
    ELSE LET k == CHOOSE x \in D : TRUE IN Len(pv[k].deps) + Listed(pv, D \ {k})

\* the query flat_url builds for (name, ver)
Query(n, v) == <<Lower(n), v>>

\* the answers the provider can give to the query q
AnswersTo(pv, q) ==
    IF q \in DOMAIN pv THEN {pv[q]}
    ELSE {a \in Answers : Listed(pv, DOMAIN pv) + Len(a.deps) <= MaxListed}

Record(pv, q, a) == [x \in DOMAIN pv \cup {q} |-> IF x = q THEN a ELSE pv[x]]

NeverRaised(a) == FALSE

\* fetch_nuspec raises
Raised(a) == ~a.ok

\* key = name.lower(); if key in seen
SeenReal(n, sn) == Lower(n) \in sn

DepNamesUnseen(deps) ==
    LET ids == [i \in 1..Len(deps) |-> deps[i].id]
    IN SelectSeq(ids, LAMBDA d : Lower(d) \notin seen)

\* [d for d, _ in deps]
DepNames(deps) == [i \in 1..Len(deps) |-> deps[i].id]

\* dv or root_ver
Hint(dv) == IF dv = "" THEN RootVer ELSE dv

InitReal ==
    /\ root \in RealNames
    /\ graph = EmptyDict /\ seen = {} /\ log = <<>>
    /\ stack = <<[n |-> root, ver |-> RootVer, deps |-> <<>>, i |-> 0]>>
    /\ status = "running"
    /\ prov = EmptyDict.val
    /\ bgraph = EmptyDict /\ bseen = {} /\ blog = <<>>
    /\ queue = <<<<root, RootVer>>>>
    /\ bstatus = "running"
    /\ repo_graph = EmptyDict
    /\ done = {}
    /\ order = <<>> /\ cyc = <<>> /\ prev_order = <<>>
    /\ pos = EmptyDict /\ mermaid = <<>> /\ svg = NoSvg
    /\ prev_pos = EmptyDict /\ prev_mermaid = <<>>

bfsVars == <<bgraph, bseen, queue, blog, bstatus>>

\* if key in seen: return
RealSkip ==
    /\ status = "running" /\ stack # <<>>
    /\ Top(stack).i = 0
    /\ SeenReal(Top(stack).n, seen)
    /\ stack' = Pop(stack)
    /\ status' = AfterReturn(stack)
    /\ UNCHANGED <<graph, root, done, topoVars, diagVars, repo_graph, seen, log, prov, bfsVars>>

\* seen.add(key); deps = extract_direct_deps(fetch_nuspec(...)); graph[name] = ...
RealFetch ==
    /\ status = "running" /\ stack # <<>>
    /\ Top(stack).i = 0
    /\ ~SeenReal(Top(stack).n, seen)
    /\ \E a \in AnswersTo(prov, Query(Top(stack).n, Top(stack).ver)) :
         /\ ~Raised(a)
         /\ prov' = Record(prov, Query(Top(stack).n, Top(stack).ver), a)
         /\ graph' = DictPut(graph, Top(stack).n, DepNames(a.deps))
         /\ stack' = [stack EXCEPT ![Len(stack)].i = 1, ![Len(stack)].deps = a.deps]
    /\ seen' = seen \cup {Lower(Top(stack).n)}
    /\ log' = Append(log, <<Top(stack).n, Top(stack).ver>>)
    /\ UNCHANGED <<root, done, topoVars, diagVars, repo_graph, status, bfsVars>>

\* seen.add(key); fetch_nuspec raises: the exception leaves every dfs frame
\* and build_graph_real_dfs, no graph is returned
RealFetchRaise ==
    /\ status = "running" /\ stack # <<>>
    /\ Top(stack).i = 0
    /\ ~SeenReal(Top(stack).n, seen)
    /\ \E a \in AnswersTo(prov, Query(Top(stack).n, Top(stack).ver)) :
         /\ Raised(a)
         /\ prov' = Record(prov, Query(Top(stack).n, Top(stack).ver), a)
    /\ seen' = seen \cup {Lower(Top(stack).n)}
    /\ log' = Append(log, <<Top(stack).n, Top(stack).ver>>)
    /\ stack' = <<>>
    /\ status' = "error"
    /\ UNCHANGED <<graph, root, done, topoVars, diagVars, repo_graph, bfsVars>>

\* for d, dv in deps: dfs(d, dv or root_ver)
RealDescend ==
    /\ status = "running" /\ stack # <<>>
    /\ Top(stack).i >= 1
    /\ Top(stack).i <= Len(Top(stack).deps)
    /\ stack' = Append([stack EXCEPT ![Len(stack)].i = @ + 1],
                       [n |-> Top(stack).deps[Top(stack).i].id,
                        ver |-> Hint(Top(stack).deps[Top(stack).i].ver),
                        deps |-> <<>>, i |-> 0])
    /\ UNCHANGED <<graph, root, done, topoVars, diagVars, repo_graph, seen, log, status, prov, bfsVars>>

\* the loop is over: the call returns
RealReturn ==
    /\ status = "running" /\ stack # <<>>
    /\ Top(stack).i >= 1
    /\ Top(stack).i > Len(Top(stack).deps)
    /\ stack' = Pop(stack)
    /\ status' = AfterReturn(stack)
    /\ UNCHANGED <<graph, root, done, topoVars, diagVars, repo_graph, seen, log, prov, bfsVars>>

(***************************************************************************)
(* The breadth-first builder of the design (section 4.1): a queue seeded   *)
(* with the root; a popped node already visited is skipped, otherwise it   *)
(* is marked, looked up and recorded, and its dependencies not yet visited *)
(* are enqueued with their declared version or the root's.  It runs after  *)
(* the depth-first builder, against the same provider.                     *)
(***************************************************************************)
dfsVars == <<graph, seen, stack, log, status>>

BfsAfterPop(q) == IF Len(q) = 1 THEN "done" ELSE "running"

BfsSkip ==
    /\ status # "running" /\ bstatus = "running" /\ queue # <<>>
    /\ Lower(Head(queue)[1]) \in bseen
    /\ queue' = Tail(queue)
    /\ bstatus' = BfsAfterPop(queue)
    /\ UNCHANGED <<root, done, topoVars, diagVars, repo_graph, dfsVars, prov, bgraph, bseen, blog>>

BfsFetch ==
    /\ status # "running" /\ bstatus = "running" /\ queue # <<>>
    /\ Lower(Head(queue)[1]) \notin bseen
    /\ \E a \in AnswersTo(prov, Query(Head(queue)[1], Head(queue)[2])) :
         /\ a.ok
         /\ prov' = Record(prov, Query(Head(queue)[1], Head(queue)[2]), a)
         /\ bgraph' = DictPut(bgraph, Head(queue)[1], [i \in 1..Len(a.deps) |-> a.deps[i].id])
         /\ LET new == SelectSeq(a.deps, LAMBDA e : Lower(e.id) \notin bseen \cup {Lower(Head(queue)[1])})
            IN /\ queue' = Tail(queue) \o
                    [i \in 1..Len(new) |->
                       <<new[i].id, IF new[i].ver = "" THEN RootVer ELSE new[i].ver>>]
               /\ bstatus' = IF queue' = <<>> THEN "done" ELSE "running"
    /\ bseen' = bseen \cup {Lower(Head(queue)[1])}
    /\ blog' = Append(blog, Head(queue))
    /\ UNCHANGED <<root, done, topoVars, diagVars, repo_graph, dfsVars>>

BfsFetchRaise ==
    /\ status # "running" /\ bstatus = "running" /\ queue # <<>>
    /\ Lower(Head(queue)[1]) \notin bseen
    /\ \E a \in AnswersTo(prov, Query(Head(queue)[1], Head(queue)[2])) :
         /\ ~a.ok
         /\ prov' = Record(prov, Query(Head(queue)[1], Head(queue)[2]), a)
    /\ bseen' = bseen \cup {Lower(Head(queue)[1])}
    /\ blog' = Append(blog, Head(queue))
    /\ queue' = <<>>
    /\ bstatus' = "error"
    /\ UNCHANGED <<root, done, topoVars, diagVars, repo_graph, dfsVars, bgraph>>

NextReal ==
    \/ RealSkip \/ RealFetch \/ RealFetchRaise \/ RealDescend \/ RealReturn
    \/ BfsSkip \/ BfsFetch \/ BfsFetchRaise

SpecReal == InitReal /\ [][NextReal]_vars

Finished == status # "running" /\ bstatus # "running"

SameGraph ==
    /\ Keys(graph) = Keys(bgraph)
    /\ \A n \in Keys(graph) : graph.val[n] = bgraph.val[n]

\* the answers given do not depend on the version asked for
VersionBlind == \A p, q \in DOMAIN prov : p[1] = q[1] => prov[p] = prov[q]

\* the identifiers the provider and the caller use
Spellings ==
    {root} \cup UNION {{prov[q].deps[i].id : i \in 1..Len(prov[q].deps)} : q \in DOMAIN prov}

\* no two of them differ only in letter case
OneSpelling == \A m, n \in Spellings : Lower(m) = Lower(n) => m = n

C6_FailureTolerated ==
    \A i \in 1..Len(log) :
        ~prov[Query(log[i][1], log[i][2])].ok =>
            /\ status # "error"
            /\ log[i][1] \in Keys(graph)
            /\ graph.val[log[i][1]] = <<>>

\* C6 amended: a failing lookup aborts the build: the exception leaves the
\* builder, the node gets no entry, nothing is looked up after it and no
\* graph is returned.
C6_FailureAborts ==
    \A i \in 1..Len(log) :
        ~prov[Query(log[i][1], log[i][2])].ok =>
            /\ status = "error"
            /\ stack = <<>>
            /\ i = Len(log)
            /\ log[i][1] \notin Keys(graph)

\* the second lookup failed while a listed dependency was still unvisited
C6_Witness ==
    /\ status = "error"
    /\ Len(log) = 2
    /\ \E n \in Keys(graph) : \E d \in Range(graph.val[n]) : Lower(d) \notin seen

====
